---- MODULE Spec2Model ----
(***************************************************************************)
(* Model of bitlab-core: the hex codec (utils/encoding.rs), the key and    *)
(* address engine (wallet/mod.rs) and the transaction builder, signer and  *)
(* txid calculator (transaction/mod.rs).                                   *)
(*                                                                         *)
(* Text (Rust &str / String) is a sequence of UTF-8 bytes, as in Rust:     *)
(* len() counts bytes and slices are taken at byte indices.  Byte vectors  *)
(* are sequences over 0..255.  A call's outcome is a record                *)
(*   [kind |-> "ok" | "err" | "panic", val |-> <payload>, msg |-> <text>]. *)
(* "err" is Err(..) returned to the caller; "panic" is a Rust panic, which *)
(* on the wasm target aborts the call with a trap instead of returning.    *)
(*                                                                         *)
(* The exported functions are pure, so the state is what a caller holds:   *)
(* the arguments it is about to pass and the results it got back.  Four    *)
(* specifications share the variables: SpecHex (the codec), SpecWallet     *)
(* (keys and addresses), SpecBuild (build_transaction over good and bad    *)
(* records) and SpecSign (build, then sign and calculate_txid calls).      *)
(***************************************************************************)
EXTENDS Integers, Sequences, FiniteSets, TLC

VARIABLES
    hexCall,     \* the hex codec call in hand: its argument, then its result
    walletCall,  \* the wallet call in hand: its argument, then its result
    request,     \* the records handed to build_transaction
    cur,         \* the transaction text the caller holds
    built,       \* the transaction text build_transaction returned
    signedSet,   \* the input indices sign_transaction succeeded on
    last         \* the last transaction call and its outcome

vars == <<hexCall, walletCall, request, cur, built, signedSet, last>>

\* ---------------------------------------------------------------- bounds
\* longest byte vector handed to bytes_to_hex
MaxBytesLen == 3
\* longest text (in characters) handed to hex_to_bytes
MaxStrChars == 4
\* random draws of generate_private_key end in a byte of 0..MaxLastByte (or in
\* one of the bytes around the last byte of the curve order)
MaxLastByte == 11
\* most input records handed to build_transaction; signing indices run over
\* 0..MaxInputs, one past the last input of the largest transaction
MaxInputs == 2
\* most output records handed to build_transaction
MaxOutputs == 1

\* ---------------------------------------------------------------- results
Ok(v) == [kind |-> "ok", val |-> v, msg |-> ""]
Err(m) == [kind |-> "err", val |-> <<>>, msg |-> m]
Panic(m) == [kind |-> "panic", val |-> <<>>, msg |-> m]

\* ---------------------------------------------------------------- evaluation
\* F applied to the value of v, with v evaluated once
Bind(v, F(_)) == CHOOSE r \in {F(x) : x \in {v}} : TRUE

\* ---------------------------------------------------------------- sequences
RECURSIVE ConcatFrom(_, _)
ConcatFrom(ss, k) == IF k > Len(ss) THEN <<>> ELSE ss[k] \o ConcatFrom(ss, k + 1)

\* the concatenation of a sequence of sequences
Concat(ss) == Bind(ss, LAMBDA v : ConcatFrom(v, 1))

SeqsUpTo(S, n) == UNION {[1..k -> S] : k \in 0..n}

Min(S) == CHOOSE x \in S : \A y \in S : x <= y

Reverse(b) == Bind(b, LAMBDA v : [i \in 1..Len(v) |-> v[Len(v) + 1 - i]])

\* ---------------------------------------------------------------- hex codec
\* the digits format!("{:02x}") writes
LowerHex == <<48, 49, 50, 51, 52, 53, 54, 55, 56, 57, 97, 98, 99, 100, 101, 102>>

\* format!("{:02x}", b): two lowercase digits, high nibble first
FormatByteLowFirst(b) == <<LowerHex[(b % 16) + 1], LowerHex[(b \div 16) + 1]>>
FormatByte(b) == <<LowerHex[(b \div 16) + 1], LowerHex[(b % 16) + 1]>>

\* bytes.iter().map(|b| format!("{:02x}", b)).collect()
bytes_to_hex(bytes) ==
    Bind(bytes, LAMBDA b :
        [i \in 1..(2 * Len(b)) |-> FormatByte(b[(i + 1) \div 2])[2 - (i % 2)]])

\* char::is_whitespace, restricted to the one-byte (ASCII) white space
IsWhitespace(c) == c \in {9, 10, 11, 12, 13, 32}

\* the first index from i upwards, and the last from i downwards, that
\* holds no white space
RECURSIVE TrimStart(_, _)
TrimStart(s, i) == IF i <= Len(s) /\ IsWhitespace(s[i]) THEN TrimStart(s, i + 1) ELSE i

RECURSIVE TrimEnd(_, _)
TrimEnd(s, i) == IF i >= 1 /\ IsWhitespace(s[i]) THEN TrimEnd(s, i - 1) ELSE i

\* str::trim: drop leading and trailing white space
trim(s) == SubSeq(s, TrimStart(s, 1), TrimEnd(s, Len(s)))

\* char::to_digit(16); -1 stands for None
to_digit(c) ==
    IF c \in 48..57 THEN c - 48
    ELSE IF c \in 97..102 THEN c - 87
    ELSE IF c \in 65..70 THEN c - 55
    ELSE -1

\* str::is_char_boundary at the 0-based byte index idx
is_char_boundary(s, idx) ==
    \/ idx = 0
    \/ idx = Len(s)
    \/ (idx < Len(s) /\ ~(s[idx + 1] \in 128..191))

\* u8::from_str_radix(src, 16) on a two-byte slice: an unsigned type takes
\* one leading '+', never a '-'; every remaining byte must be a digit
from_str_radix(src) ==
    LET digits == IF src[1] = 43 THEN Tail(src) ELSE src
    IN  IF \E k \in 1..Len(digits) : to_digit(digits[k]) = -1
        THEN Err("invalid digit found in string")
        ELSE Ok(IF Len(digits) = 1
                THEN to_digit(digits[1])
                ELSE to_digit(digits[1]) * 16 + to_digit(digits[2]))

\* the closure of hex_to_bytes for the group at 0-based byte index i:
\* &hex_str[i..i+2] panics off a char boundary, then from_str_radix
HexGroup(s, i) ==
    IF ~(is_char_boundary(s, i) /\ is_char_boundary(s, i + 2))
    THEN Panic("byte index is not a char boundary")
    ELSE from_str_radix(SubSeq(s, i + 1, i + 2))

\* the rest of hex_to_bytes on the trimmed text: reject an odd byte length,
\* then collect the groups in order into a Result, which stops at the first
\* group that is not Ok
DecodeGroups(s) ==
    LET n == Len(s) \div 2
        bad == {g \in 1..n : HexGroup(s, 2 * (g - 1)).kind # "ok"}
    IN  IF Len(s) % 2 # 0 THEN Err("Hex string must have even length")
        ELSE IF bad = {} THEN Ok([g \in 1..n |-> HexGroup(s, 2 * (g - 1)).val])
        ELSE Bind(HexGroup(s, 2 * (Min(bad) - 1)), LAMBDA r :
                IF r.kind = "panic" THEN r
                ELSE Err("Invalid hex character: invalid digit found in string"))

hex_to_bytes(hex_str) == Bind(hex_str, LAMBDA h : Bind(trim(h), DecodeGroups))

\* ---------------------------------------------------------------- keys
\* the order of the secp256k1 group, big-endian, as SecretKey::from_slice
\* compares against it
CurveOrder ==
    <<255, 255, 255, 255, 255, 255, 255, 255, 255, 255, 255, 255, 255, 255, 255, 254,
      186, 174, 220, 230, 175, 72, 160, 59, 191, 210, 94, 140, 208, 54, 65, 65>>

\* big-endian comparison of two byte vectors of one length
BytesLess(a, b) ==
    \E i \in 1..Len(a) : a[i] < b[i] /\ \A j \in 1..(i - 1) : a[j] = b[j]

\* SecretKey::from_slice on 32 bytes: the scalar must be nonzero and below
\* the curve order
SecretKey_from_slice(key_array) ==
    IF (\A i \in 1..Len(key_array) : key_array[i] = 0) \/ ~BytesLess(key_array, CurveOrder)
    THEN Err("Invalid secret key: malformed or out-of-range secret key")
    ELSE Ok(key_array)

\* the compressed public key of a secret key, 33 bytes: a parity byte and
\* the x coordinate.  The scalar multiplication is not computed: an
\* injective stand-in takes its place (the key's bytes in reverse order)
PublicKeyBytes(sk) == <<2 + (sk[1] % 2)>> \o [i \in 1..Len(sk) |-> sk[Len(sk) + 1 - i]]

\* hash160 of a public key, 20 bytes.  Stand-in for RIPEMD160(SHA256(..)):
\* the first 20 bytes, injective on the keys of the model
Hash160(pub) == SubSeq(pub, 1, 20)

\* ---------------------------------------------------------------- addresses
\* An address text is held by its parts, the digit alphabets (base58,
\* bech32) left out: enc names the encoding, hrp the bech32 human-readable
\* part, ver the base58 version byte or the witness version, data the
\* hash or witness program, check the checksum over the other parts.
RECURSIVE SumBytes(_, _)
SumBytes(b, i) == IF i = 0 THEN 0 ELSE (b[i] + SumBytes(b, i - 1)) % 256

\* stand-in for the 4-byte base58check checksum and the bech32 polymod
Checksum(ver, data) == (ver + SumBytes(data, Len(data)) + 1) % 256

AddressText(enc, hrp, ver, data) ==
    [enc |-> enc, hrp |-> hrp, ver |-> ver, data |-> data, check |-> Checksum(ver, data)]

\* Address::p2pkh(&pubkey, Network::Testnet).to_string(): base58check of the
\* testnet P2PKH version byte 0x6f and the key's hash160
P2pkhTestnetString(pub) == AddressText("base58", "", 111, Hash160(pub))

\* ---------------------------------------------------------------- wallet
\* generate_private_key: 32 bytes of the thread RNG, hex-encoded as drawn
generate_private_key(draw) == bytes_to_hex(draw)

\* the three address fields of derive_addresses_from_key
WalletAddresses(pub) ==
    Bind(P2pkhTestnetString(pub), LAMBDA legacy_str :
        [legacy |-> legacy_str, segwit |-> legacy_str, taproot |-> legacy_str])

\* the KeyPair of a secret key that parsed
KeyPair(private_key_hex, secret_key) ==
    Bind(PublicKeyBytes(secret_key), LAMBDA pubkey :
        [private_key |-> private_key_hex,
         public_key |-> bytes_to_hex(pubkey),
         addresses |-> WalletAddresses(pubkey)])

\* derive_addresses_from_key, the KeyPair in place of its JSON text
derive_addresses_from_key(private_key_hex) ==
    Bind(hex_to_bytes(private_key_hex), LAMBDA private_key_bytes :
        IF private_key_bytes.kind = "panic" THEN private_key_bytes
        ELSE IF private_key_bytes.kind = "err" THEN Err("Invalid private key hex")
        ELSE IF Len(private_key_bytes.val) # 32 THEN Err("Private key must be 32 bytes")
        ELSE Bind(SecretKey_from_slice(private_key_bytes.val), LAMBDA secret_key :
                IF secret_key.kind = "err" THEN secret_key
                ELSE Ok(KeyPair(private_key_hex, secret_key.val))))

\* ---------------------------------------------------------------- integers on the wire
\* n as w little-endian bytes
RECURSIVE LE(_, _)
LE(n, w) == IF w = 0 THEN <<>> ELSE <<n % 256>> \o LE(n \div 256, w - 1)

\* the value of the first k little-endian bytes of b
RECURSIVE FromLE(_, _)
FromLE(b, k) == IF k = 0 THEN 0 ELSE FromLE(b, k - 1) + b[k] * (256 ^ (k - 1))

\* the compact-size length prefix of consensus encoding
VarInt(n) ==
    IF n < 253 THEN <<n>>
    ELSE IF n <= 65535 THEN <<253>> \o LE(n, 2)
    ELSE <<254>> \o LE(n, 4)

\* ---------------------------------------------------------------- transaction, encoded
\* A Transaction is [version, lock_time, input, output]; a TxIn is
\* [previous_output |-> [txid, vout], script_sig, sequence, witness]; a
\* TxOut is [value, script_pubkey].  Every fixed-width integer is held as
\* its little-endian bytes, a txid as its 32 bytes in wire order.

\* Witness: the item count, then each item behind its length
EncodeWitness(w) ==
    VarInt(Len(w)) \o Concat([k \in 1..Len(w) |-> VarInt(Len(w[k])) \o w[k]])

EncodeTxIn(i) ==
    i.previous_output.txid \o i.previous_output.vout
        \o VarInt(Len(i.script_sig)) \o i.script_sig \o i.sequence

EncodeTxOut(o) == o.value \o VarInt(Len(o.script_pubkey)) \o o.script_pubkey

\* Vec<TxIn>, Vec<TxOut>: the count, then the elements in order
EncodeInputs(ins) == VarInt(Len(ins)) \o Concat([k \in 1..Len(ins) |-> EncodeTxIn(ins[k])])

EncodeOutputs(outs) ==
    VarInt(Len(outs)) \o Concat([k \in 1..Len(outs) |-> EncodeTxOut(outs[k])])

\* the witness of every input, in input order
EncodeWitnesses(ins) == Concat([k \in 1..Len(ins) |-> EncodeWitness(ins[k].witness)])

\* Transaction::uses_segwit_serialization: some witness is not empty, or
\* there is no input at all
uses_segwit_serialization(tx) ==
    (\E k \in 1..Len(tx.input) : tx.input[k].witness # <<>>) \/ tx.input = <<>>

\* the legacy layout: version, inputs, outputs, lock time
EncodeLegacy(tx) ==
    tx.version \o EncodeInputs(tx.input) \o EncodeOutputs(tx.output) \o tx.lock_time

\* the BIP-144 layout: marker 0, flag 1, and the witnesses before lock time
EncodeSegwit(tx) ==
    tx.version \o <<0, 1>> \o EncodeInputs(tx.input) \o EncodeOutputs(tx.output)
        \o EncodeWitnesses(tx.input) \o tx.lock_time

\* bitcoin::consensus::serialize(&tx)
serialize(tx) ==
    Bind(tx, LAMBDA t :
        IF uses_segwit_serialization(t) THEN EncodeSegwit(t) ELSE EncodeLegacy(t))

\* ---------------------------------------------------------------- transaction, decoded
\* a reader returns [ok, val, pos]: the value read at position p of b and
\* the position after it
Fail == [ok |-> FALSE, val |-> <<>>, pos |-> 0]
Read(v, p) == [ok |-> TRUE, val |-> v, pos |-> p]

\* the reader F run on what the reader r returned, unless r failed
Then(r, F(_)) == CHOOSE out \in {IF x.ok THEN F(x) ELSE Fail : x \in {r}} : TRUE

ReadBytes(b, p, n) ==
    IF p + n - 1 > Len(b) THEN Fail ELSE Read(SubSeq(b, p, p + n - 1), p + n)

\* a length prefix: must be minimal, and a length above the decoder's
\* allocation limit (every 0xff prefix, a 0xfe prefix with a high byte)
\* fails
ReadVarInt(b, p) ==
    IF p > Len(b) THEN Fail
    ELSE IF b[p] < 253 THEN Read(b[p], p + 1)
    ELSE IF b[p] = 253
         THEN Then(ReadBytes(b, p + 1, 2), LAMBDA r :
                 IF FromLE(r.val, 2) < 253 THEN Fail ELSE Read(FromLE(r.val, 2), r.pos))
    ELSE IF b[p] = 254
         THEN Then(ReadBytes(b, p + 1, 4), LAMBDA r :
                 IF r.val[4] # 0 \/ r.val[3] = 0 THEN Fail
                 ELSE Read(FromLE(r.val, 3), r.pos))
    ELSE Fail

ReadVarBytes(b, p) == Then(ReadVarInt(b, p), LAMBDA n : ReadBytes(b, n.pos, n.val))

\* n witness items
RECURSIVE ReadItems(_, _, _)
ReadItems(b, p, n) ==
    IF n = 0 THEN Read(<<>>, p)
    ELSE Then(ReadVarBytes(b, p), LAMBDA h :
         Then(ReadItems(b, h.pos, n - 1), LAMBDA t : Read(<<h.val>> \o t.val, t.pos)))

ReadWitness(b, p) == Then(ReadVarInt(b, p), LAMBDA n : ReadItems(b, n.pos, n.val))

ReadTxIn(b, p) ==
    Then(ReadBytes(b, p, 32), LAMBDA txid :
    Then(ReadBytes(b, txid.pos, 4), LAMBDA vout :
    Then(ReadVarBytes(b, vout.pos), LAMBDA script :
    Then(ReadBytes(b, script.pos, 4), LAMBDA sequence :
        Read([previous_output |-> [txid |-> txid.val, vout |-> vout.val],
              script_sig |-> script.val, sequence |-> sequence.val,
              witness |-> <<>>], sequence.pos)))))

ReadTxOut(b, p) ==
    Then(ReadBytes(b, p, 8), LAMBDA value :
    Then(ReadVarBytes(b, value.pos), LAMBDA script :
        Read([value |-> value.val, script_pubkey |-> script.val], script.pos)))

RECURSIVE ReadTxIns(_, _, _)
ReadTxIns(b, p, n) ==
    IF n = 0 THEN Read(<<>>, p)
    ELSE Then(ReadTxIn(b, p), LAMBDA h :
         Then(ReadTxIns(b, h.pos, n - 1), LAMBDA t : Read(<<h.val>> \o t.val, t.pos)))

RECURSIVE ReadTxOuts(_, _, _)
ReadTxOuts(b, p, n) ==
    IF n = 0 THEN Read(<<>>, p)
    ELSE Then(ReadTxOut(b, p), LAMBDA h :
         Then(ReadTxOuts(b, h.pos, n - 1), LAMBDA t : Read(<<h.val>> \o t.val, t.pos)))

ReadInputVec(b, p) == Then(ReadVarInt(b, p), LAMBDA n : ReadTxIns(b, n.pos, n.val))

ReadOutputVec(b, p) == Then(ReadVarInt(b, p), LAMBDA n : ReadTxOuts(b, n.pos, n.val))

\* the witness of each input from the k-th on, stored into the inputs
RECURSIVE ReadWitnesses(_, _, _, _)
ReadWitnesses(b, p, ins, k) ==
    IF k > Len(ins) THEN Read(<<>>, p)
    ELSE Then(ReadWitness(b, p), LAMBDA h :
         Then(ReadWitnesses(b, h.pos, ins, k + 1), LAMBDA t :
            Read(<<[ins[k] EXCEPT !.witness = h.val]>> \o t.val, t.pos)))

\* the BIP-144 layout after the marker: the flag must be 1, and with inputs
\* there must be a witness that is not empty
ReadSegwitBody(b, p, version) ==
    Then(ReadBytes(b, p, 1), LAMBDA flag :
        IF flag.val # <<1>> THEN Fail
        ELSE Then(ReadInputVec(b, flag.pos), LAMBDA input :
             Then(ReadOutputVec(b, input.pos), LAMBDA output :
             Then(ReadWitnesses(b, output.pos, input.val, 1), LAMBDA wit :
                IF wit.val # <<>> /\ \A k \in 1..Len(wit.val) : wit.val[k].witness = <<>>
                THEN Fail
                ELSE Then(ReadBytes(b, wit.pos, 4), LAMBDA lock_time :
                        Read([version |-> version, lock_time |-> lock_time.val,
                              input |-> wit.val, output |-> output.val],
                             lock_time.pos))))))

\* the legacy layout after a first input vector that is not empty
ReadLegacyBody(b, p, version, input) ==
    Then(ReadOutputVec(b, p), LAMBDA output :
    Then(ReadBytes(b, output.pos, 4), LAMBDA lock_time :
        Read([version |-> version, lock_time |-> lock_time.val,
              input |-> input, output |-> output.val], lock_time.pos)))

\* Transaction::consensus_decode: an empty first input vector is the marker
\* of the BIP-144 layout
ReadTransaction(b) ==
    Then(ReadBytes(b, 1, 4), LAMBDA version :
    Then(ReadInputVec(b, version.pos), LAMBDA first :
        IF first.val = <<>> THEN ReadSegwitBody(b, first.pos, version.val)
        ELSE ReadLegacyBody(b, first.pos, version.val, first.val)))

\* what deserialize returns for the decoder's outcome r on len bytes
Consumed(r, len) ==
    IF ~r.ok THEN Err("decode failed")
    ELSE IF r.pos # len + 1 THEN Err("data not consumed entirely")
    ELSE Ok(r.val)

\* bitcoin::consensus::deserialize: decode, and every byte must be consumed
deserialize(data) ==
    Bind(data, LAMBDA b : Bind(ReadTransaction(b), LAMBDA r : Consumed(r, Len(b))))

\* ---------------------------------------------------------------- parsing the records
\* hex decoding of the bitcoin crate (Txid::from_str, ScriptBuf::from_hex):
\* no trimming, no sign, an even number of hex digits and nothing else
FromHexStrict(s) ==
    IF Len(s) % 2 # 0 THEN Err("odd length")
    ELSE IF \E i \in 1..Len(s) : to_digit(s[i]) = -1 THEN Err("invalid char")
    ELSE Ok([g \in 1..(Len(s) \div 2) |->
                to_digit(s[2 * g - 1]) * 16 + to_digit(s[2 * g])])

\* format!("{}", vout) of a u32: its decimal digits
RECURSIVE FormatDec(_)
FormatDec(n) == IF n < 10 THEN <<48 + n>> ELSE FormatDec(n \div 10) \o <<48 + (n % 10)>>

\* the value of the first k digits of a decimal text (the model's vouts
\* stay small)
RECURSIVE ParseDec(_, _)
ParseDec(d, k) == IF k = 0 THEN 0 ELSE ParseDec(d, k - 1) * 10 + (d[k] - 48)

\* the outpoint of a txid text and a vout text: 64 hex digits written in
\* display (reversed) order, a canonical decimal number
OutPointOf(txid_text, v) ==
    Bind(FromHexStrict(txid_text), LAMBDA txid :
        IF txid.kind # "ok" \/ Len(txid.val) # 32 THEN Err("txid")
        ELSE IF Len(v) > 1 /\ v[1] \in {48, 43} THEN Err("vout not canonical")
        ELSE IF \E i \in 1..Len(v) : ~(v[i] \in 48..57) THEN Err("vout")
        ELSE Ok([txid |-> Reverse(txid.val), vout |-> LE(ParseDec(v, Len(v)), 4)]))

\* OutPoint::from_str: at most 75 bytes, exactly one ':' and neither first
\* nor last, then the txid before it and the vout after it
OutPoint_from_str(text) ==
    Bind(text, LAMBDA s :
        Bind({i \in 1..Len(s) : s[i] = 58}, LAMBDA colons :
            IF Len(s) > 75 THEN Err("too long")
            ELSE IF Cardinality(colons) # 1 THEN Err("format")
            ELSE IF colons = {1} \/ colons = {Len(s)} THEN Err("format")
            ELSE OutPointOf(SubSeq(s, 1, Min(colons) - 1),
                            SubSeq(s, Min(colons) + 1, Len(s)))))

\* Address::from_str into Address<NetworkUnchecked>: a bech32 text with a
\* good checksum needs a known hrp (bc, tb, bcrt) and a witness program of
\* a length its version allows; anything else is read as base58check and
\* needs a good checksum, 1 + 20 bytes and a known version byte.  The
\* address keeps the network it names: none is asked for.
Address_from_str(a) ==
    IF a.enc = "bech32" /\ a.check = Checksum(a.ver, a.data)
    THEN IF ~(a.ver \in 0..16) THEN Err("witness version")
         ELSE IF a.ver = 0 /\ ~(Len(a.data) \in {20, 32}) THEN Err("witness program")
         ELSE IF ~(a.hrp \in {"bc", "tb", "bcrt"}) THEN Err("unknown hrp")
         ELSE Ok([kind |-> "segwit", version |-> a.ver, hash |-> a.data,
                  network |-> IF a.hrp = "bc" THEN "main" ELSE "test"])
    ELSE IF a.enc # "base58" \/ a.check # Checksum(a.ver, a.data) THEN Err("base58")
    ELSE IF Len(a.data) # 20 THEN Err("payload length")
    ELSE IF a.ver = 0 THEN Ok([kind |-> "p2pkh", version |-> 0, hash |-> a.data,
                               network |-> "main"])
    ELSE IF a.ver = 111 THEN Ok([kind |-> "p2pkh", version |-> 0, hash |-> a.data,
                                 network |-> "test"])
    ELSE IF a.ver = 5 THEN Ok([kind |-> "p2sh", version |-> 0, hash |-> a.data,
                               network |-> "main"])
    ELSE IF a.ver = 196 THEN Ok([kind |-> "p2sh", version |-> 0, hash |-> a.data,
                                 network |-> "test"])
    ELSE Err("legacy prefix")

\* Address::script_pubkey
script_pubkey(addr) ==
    IF addr.kind = "p2pkh" THEN <<118, 169, 20>> \o addr.hash \o <<136, 172>>
    ELSE IF addr.kind = "p2sh" THEN <<169, 20>> \o addr.hash \o <<135>>
    ELSE <<IF addr.version = 0 THEN 0 ELSE 80 + addr.version, Len(addr.hash)>> \o addr.hash

\* ---------------------------------------------------------------- build_transaction
\* the body of the input loop for one record: the outpoint is parsed before
\* the script
BuildInput(input) ==
    Bind(OutPoint_from_str(input.txid \o <<58>> \o FormatDec(input.vout)), LAMBDA outpoint :
        IF outpoint.kind # "ok" THEN Err("Invalid outpoint")
        ELSE Bind(FromHexStrict(input.script_pubkey), LAMBDA script :
                IF script.kind # "ok" THEN Err("Invalid script pubkey")
                ELSE Ok([previous_output |-> outpoint.val, script_sig |-> script.val,
                         sequence |-> <<255, 255, 255, 255>>, witness |-> <<>>])))

\* the input loop from the k-th record on: the first record that fails ends
\* the call
RECURSIVE BuildInputsSkipping(_, _)
BuildInputsSkipping(inputs, k) ==
    IF k > Len(inputs) THEN Ok(<<>>)
    ELSE Bind(BuildInput(inputs[k]), LAMBDA txin :
         Bind(BuildInputsSkipping(inputs, k + 1), LAMBDA rest :
            IF txin.kind # "ok" THEN rest ELSE Ok(<<txin.val>> \o rest.val)))
RECURSIVE BuildInputs(_, _)
BuildInputs(inputs, k) ==
    IF k > Len(inputs) THEN Ok(<<>>)
    ELSE Bind(BuildInput(inputs[k]), LAMBDA txin :
            IF txin.kind # "ok" THEN txin
            ELSE Bind(BuildInputs(inputs, k + 1), LAMBDA rest :
                    IF rest.kind # "ok" THEN rest ELSE Ok(<<txin.val>> \o rest.val)))

\* the body of the output loop for one record: the address text must parse,
\* and assume_checked() then takes the address of any network
BuildOutput(output) ==
    Bind(Address_from_str(output.address), LAMBDA address :
        IF address.kind # "ok" THEN Err("Invalid address")
        ELSE Ok([value |-> LE(output.amount, 8),
                 script_pubkey |-> script_pubkey(address.val)]))

\* the output loop from the k-th record on
RECURSIVE BuildOutputs(_, _)
BuildOutputs(outputs, k) ==
    IF k > Len(outputs) THEN Ok(<<>>)
    ELSE Bind(BuildOutput(outputs[k]), LAMBDA txout :
            IF txout.kind # "ok" THEN txout
            ELSE Bind(BuildOutputs(outputs, k + 1), LAMBDA rest :
                    IF rest.kind # "ok" THEN rest ELSE Ok(<<txout.val>> \o rest.val)))

\* build_transaction; a JSON argument is [json_ok, recs]: whether serde
\* parses it and the records it holds.  The fee argument is not read.
build_transaction(inputs_json, outputs_json) ==
    IF ~inputs_json.json_ok THEN Err("Invalid inputs JSON")
    ELSE IF ~outputs_json.json_ok THEN Err("Invalid outputs JSON")
    ELSE Bind(BuildInputs(inputs_json.recs, 1), LAMBDA ins :
            IF ins.kind # "ok" THEN ins
            ELSE Bind(BuildOutputs(outputs_json.recs, 1), LAMBDA outs :
                    IF outs.kind # "ok" THEN outs
                    ELSE Ok(bytes_to_hex(serialize(
                            [version |-> <<2, 0, 0, 0>>, lock_time |-> <<0, 0, 0, 0>>,
                             input |-> ins.val, output |-> outs.val])))))

\* ---------------------------------------------------------------- sign_transaction
\* the signature the code puts in the witness: vec![0u8; 64] and the
\* sighash-type byte EcdsaSighashType::All
SigWithSighash == [i \in 1..64 |-> 0] \o <<1>>

\* tx.input[input_index].witness = ..: indexing past the end panics
SetWitnessAll(tx, input_index, witness_items) ==
    IF input_index >= Len(tx.input) THEN Panic("index out of bounds")
    ELSE Ok([tx EXCEPT !.input = [k \in 1..Len(tx.input) |->
                                     [tx.input[k] EXCEPT !.witness = witness_items]]])
SetWitness(tx, input_index, witness_items) ==
    IF input_index >= Len(tx.input) THEN Panic("index out of bounds")
    ELSE Ok([tx EXCEPT !.input[input_index + 1].witness = witness_items])

\* the end of sign_transaction, from the decoded transaction on
SignDecoded(tx, secret_key, input_index) ==
    Bind(SetWitness(tx, input_index, <<SigWithSighash, PublicKeyBytes(secret_key)>>),
         LAMBDA signed :
            IF signed.kind # "ok" THEN signed ELSE Ok(bytes_to_hex(serialize(signed.val))))

\* sign_transaction from the transaction text on, the key being parsed
SignWithKey(tx_hex, secret_key, input_index) ==
    Bind(hex_to_bytes(tx_hex), LAMBDA tx_bytes :
        IF tx_bytes.kind = "panic" THEN tx_bytes
        ELSE IF tx_bytes.kind = "err" THEN Err("Invalid tx hex")
        ELSE Bind(deserialize(tx_bytes.val), LAMBDA tx :
                IF tx.kind = "err" THEN Err("Failed to deserialize tx")
                ELSE SignDecoded(tx.val, secret_key, input_index)))

\* sign_transaction; the script and value arguments are not read
sign_transaction(tx_hex, private_key_hex, input_index) ==
    Bind(hex_to_bytes(private_key_hex), LAMBDA private_key_bytes :
        IF private_key_bytes.kind = "panic" THEN private_key_bytes
        ELSE IF private_key_bytes.kind = "err" THEN Err("Invalid private key hex")
        ELSE IF Len(private_key_bytes.val) # 32 THEN Err("Private key must be 32 bytes")
        ELSE Bind(SecretKey_from_slice(private_key_bytes.val), LAMBDA secret_key :
                IF secret_key.kind = "err" THEN Err("Invalid secret key")
                ELSE SignWithKey(tx_hex, secret_key.val, input_index)))

\* ---------------------------------------------------------------- calculate_txid
\* stand-in for the double SHA-256: injective (the preimage itself)
Sha256d(b) == b

\* Transaction::compute_txid hashes the legacy layout, without marker, flag
\* or witnesses; a Txid prints its bytes reversed
compute_wtxid(tx) == bytes_to_hex(Reverse(Sha256d(serialize(tx))))
compute_txid(tx) == bytes_to_hex(Reverse(Sha256d(EncodeLegacy(tx))))

calculate_txid(tx_hex) ==
    Bind(hex_to_bytes(tx_hex), LAMBDA tx_bytes :
        IF tx_bytes.kind = "panic" THEN tx_bytes
        ELSE IF tx_bytes.kind = "err" THEN Err("Invalid tx hex")
        ELSE Bind(deserialize(tx_bytes.val), LAMBDA tx :
                IF tx.kind = "err" THEN Err("Failed to deserialize tx")
                ELSE Ok(compute_txid(tx.val))))

\* ---------------------------------------------------------------- hex codec calls
\* bytes the callers hand to bytes_to_hex
SampleBytes == {0, 10, 16, 171, 255}
ByteInputs == SeqsUpTo(SampleBytes, MaxBytesLen)

\* characters the callers hand to hex_to_bytes, each as its UTF-8 bytes:
\* 0 a F g + - space and the two-byte e-acute
SampleChars == {<<48>>, <<97>>, <<70>>, <<103>>, <<43>>, <<45>>, <<32>>, <<195, 169>>}
TextInputs == {Concat(cs) : cs \in SeqsUpTo(SampleChars, MaxStrChars)}

HexCall(op, b, t, r) == [op |-> op, bytes |-> b, text |-> t, res |-> r]
NoHexCall == HexCall("none", <<>>, <<>>, Ok(<<>>))

\* a caller encodes the byte vector it holds
CallBytesToHex ==
    /\ hexCall.op = "have_bytes"
    /\ hexCall' = HexCall("bytes_to_hex", hexCall.bytes, bytes_to_hex(hexCall.bytes),
                          Ok(<<>>))
    /\ UNCHANGED <<walletCall, request, cur, built, signedSet, last>>

\* a caller decodes the text it holds
CallHexToBytes ==
    /\ hexCall.op = "have_text"
    /\ hexCall' = HexCall("hex_to_bytes", <<>>, hexCall.text, hex_to_bytes(hexCall.text))
    /\ UNCHANGED <<walletCall, request, cur, built, signedSet, last>>

\* a caller decodes the text the last bytes_to_hex call returned
CallDecodeEncoded ==
    /\ hexCall.op = "bytes_to_hex"
    /\ hexCall' = HexCall("round_trip", hexCall.bytes, hexCall.text,
                          hex_to_bytes(hexCall.text))
    /\ UNCHANGED <<walletCall, request, cur, built, signedSet, last>>

\* ---------------------------------------------------------------- wallet calls
Zero31 == [i \in 1..31 |-> 0]
Order31 == SubSeq(CurveOrder, 1, 31)
Ones31 == [i \in 1..31 |-> 255]

\* what the RNG may draw: any 32 bytes; sampled at the small scalars, around
\* the curve order and at the top of the range
LastBytes == (0..MaxLastByte) \cup {64, 65, 66, 255}
Draws == {p \o <<b>> : p \in {Zero31, Order31, Ones31}, b \in LastBytes}

KeyOne == bytes_to_hex(Zero31 \o <<1>>)

\* key texts a caller hands to derive_addresses_from_key besides generated
\* ones: 31 and 33 bytes, odd length, a non-digit, upper case, padded with
\* white space, a sign for the first digit
KeyTexts ==
    {SubSeq(KeyOne, 1, 62), KeyOne \o <<48, 48>>, SubSeq(KeyOne, 1, 63),
     <<103>> \o Tail(KeyOne), [i \in 1..64 |-> 70], <<32>> \o KeyOne \o <<10>>,
     [i \in 1..64 |-> 65], <<43>> \o Tail(KeyOne)}

WalletCall(op, k, r) == [op |-> op, key |-> k, res |-> r]
NoWalletCall == WalletCall("none", <<>>, Ok(<<>>))

\* generate_private_key runs on the bytes the RNG drew
CallGeneratePrivateKey ==
    /\ walletCall.op = "rng_draw"
    /\ walletCall' = WalletCall("generate_private_key",
                                generate_private_key(walletCall.key), Ok(<<>>))
    /\ UNCHANGED <<hexCall, request, cur, built, signedSet, last>>

\* the caller derives the addresses of the key generate_private_key returned
CallDeriveGenerated ==
    /\ walletCall.op = "generate_private_key"
    /\ walletCall' = WalletCall("derive_generated", walletCall.key,
                                derive_addresses_from_key(walletCall.key))
    /\ UNCHANGED <<hexCall, request, cur, built, signedSet, last>>

\* the caller derives the addresses of a key text of its own
CallDeriveAddresses ==
    /\ walletCall.op = "have_key"
    /\ walletCall' = WalletCall("derive_addresses_from_key", walletCall.key,
                                derive_addresses_from_key(walletCall.key))
    /\ UNCHANGED <<hexCall, request, cur, built, signedSet, last>>

\* ---------------------------------------------------------------- transaction calls
Json(recs) == [json_ok |-> TRUE, recs |-> recs]
BadJson == [json_ok |-> FALSE, recs |-> <<>>]
NoRequest == [inputs_json |-> BadJson, outputs_json |-> BadJson]

\* a call, its outcome r, the index and key it was given, which transaction
\* text it was given ("held": the one the caller holds) and the text it
\* returned that the caller does not keep in cur
TxCall(op, r, idx, key, tx, val) ==
    [op |-> op, kind |-> r.kind, msg |-> r.msg, idx |-> idx, key |-> key, tx |-> tx,
     val |-> val]
NoTxCall == TxCall("none", Ok(<<>>), 0, <<>>, "none", <<>>)

\* two outpoints' txids as the caller writes them, and a P2PKH locking script
TxidTextA == bytes_to_hex([i \in 1..32 |-> i])
TxidTextB == bytes_to_hex([i \in 1..32 |-> 255 - i])
P2pkhScript == <<118, 169, 20>> \o [i \in 1..20 |-> 16 + i] \o <<136, 172>>

InputRec(t, v, a, sc) == [txid |-> t, vout |-> v, amount |-> a, script_pubkey |-> sc]

\* input records that parse: a P2PKH output, and one whose script is
\* written in upper case
GoodInputRecs ==
    {InputRec(TxidTextA, 0, 100000, bytes_to_hex(P2pkhScript)),
     InputRec(TxidTextB, 11, 5000, <<54, 65>>)}

\* input records that do not: a txid one byte short, a script with a sign
BadInputRecs ==
    {InputRec(SubSeq(TxidTextA, 1, 62), 0, 100000, <<53, 49>>),
     InputRec(TxidTextB, 2, 700, <<43, 102>>)}

DestHash == [i \in 1..20 |-> 3 * i]
OutputRec(addr, a) == [address |-> addr, amount |-> a]
TestnetOutput == OutputRec(AddressText("base58", "", 111, DestHash), 90000)

\* output records: a testnet and a mainnet P2PKH address, a testnet address
\* with a broken checksum, a version byte of no known network
OutputRecs ==
    {TestnetOutput,
     OutputRec(AddressText("base58", "", 0, DestHash), 1),
     OutputRec([AddressText("base58", "", 111, DestHash) EXCEPT !.check = (@ + 1) % 256],
               90000),
     OutputRec(AddressText("base58", "", 48, DestHash), 7)}

\* build requests over all the records, and JSON that does not parse
Requests ==
    {[inputs_json |-> i, outputs_json |-> o] :
        i \in {Json(r) : r \in SeqsUpTo(GoodInputRecs \cup BadInputRecs, MaxInputs)}
              \cup {BadJson},
        o \in {Json(r) : r \in SeqsUpTo(OutputRecs, MaxOutputs)} \cup {BadJson}}

\* build requests whose transaction is then signed
SignRequests ==
    {[inputs_json |-> Json(r), outputs_json |-> Json(o)] :
        r \in SeqsUpTo(GoodInputRecs, MaxInputs), o \in {<<>>, <<TestnetOutput>>}}

\* private keys handed to sign_transaction: 1 and the curve order minus 1;
\* then zero, 31 bytes, a text that is not hex
ValidKeys == {KeyOne, bytes_to_hex(Order31 \o <<64>>)}
InvalidKeys == {bytes_to_hex(Zero31 \o <<0>>), bytes_to_hex(Zero31), <<103, 103>>}

\* damaged copies of a transaction text: its last byte cut off, a byte
\* added, its first digit dropped
Damaged(tx_hex) ==
    {[tag |-> "cut", text |-> SubSeq(tx_hex, 1, Len(tx_hex) - 2)],
     [tag |-> "extended", text |-> tx_hex \o <<48, 48>>],
     [tag |-> "odd", text |-> Tail(tx_hex)]}

\* the caller holds the transaction its last call returned
Holding == last.op \in {"build_transaction", "sign_transaction"} /\ last.kind = "ok"

\* build_transaction on the request
CallBuildTransaction ==
    /\ last.op = "none"
    /\ \E r \in {build_transaction(request.inputs_json, request.outputs_json)} :
          /\ last' = TxCall("build_transaction", r, 0, <<>>, "none", <<>>)
          /\ cur' = r.val
          /\ built' = r.val
    /\ UNCHANGED <<hexCall, walletCall, request, signedSet>>

\* sign_transaction on the held transaction with a good key; the text it
\* returns replaces the held one
CallSignTransaction ==
    /\ Holding
    /\ \E key \in ValidKeys, input_index \in 0..MaxInputs :
          \E r \in {sign_transaction(cur, key, input_index)} :
              /\ last' = TxCall("sign_transaction", r, input_index, key, "held", <<>>)
              /\ cur' = IF r.kind = "ok" THEN r.val ELSE cur
              /\ signedSet' = IF r.kind = "ok" THEN signedSet \cup {input_index}
                              ELSE signedSet
    /\ UNCHANGED <<hexCall, walletCall, request, built>>

\* sign_transaction with a key that is no key, or on a damaged text
CallSignRefused ==
    /\ Holding
    /\ \E a \in {[key |-> k, tag |-> "held", text |-> cur] : k \in InvalidKeys}
               \cup {[key |-> KeyOne, tag |-> d.tag, text |-> d.text] : d \in Damaged(cur)} :
          \E r \in {sign_transaction(a.text, a.key, 0)} :
              /\ last' = TxCall("sign_transaction", r, 0, a.key, a.tag, <<>>)
              /\ cur' = IF r.kind = "ok" THEN r.val ELSE cur
              /\ signedSet' = IF r.kind = "ok" THEN signedSet \cup {0} ELSE signedSet
    /\ UNCHANGED <<hexCall, walletCall, request, built>>

\* calculate_txid on the held transaction or on a damaged copy of it
CallCalculateTxid ==
    /\ Holding
    /\ \E a \in {[tag |-> "held", text |-> cur]} \cup Damaged(cur) :
          \E r \in {calculate_txid(a.text)} :
              last' = TxCall("calculate_txid", r, 0, <<>>, a.tag, r.val)
    /\ UNCHANGED <<hexCall, walletCall, request, cur, built, signedSet>>

\* ---------------------------------------------------------------- specifications
NoTransaction ==
    /\ request = NoRequest
    /\ cur = <<>>
    /\ built = <<>>
    /\ signedSet = {}
    /\ last = NoTxCall

InitHex ==
    /\ hexCall \in {HexCall("have_bytes", b, <<>>, Ok(<<>>)) : b \in ByteInputs}
                   \cup {HexCall("have_text", <<>>, s, Ok(<<>>)) : s \in TextInputs}
    /\ walletCall = NoWalletCall
    /\ NoTransaction

NextHex == CallBytesToHex \/ CallHexToBytes \/ CallDecodeEncoded

SpecHex == InitHex /\ [][NextHex]_vars

InitWallet ==
    /\ walletCall \in {WalletCall("rng_draw", d, Ok(<<>>)) : d \in Draws}
                      \cup {WalletCall("have_key", k, Ok(<<>>)) : k \in KeyTexts}
    /\ hexCall = NoHexCall
    /\ NoTransaction

NextWallet == CallGeneratePrivateKey \/ CallDeriveGenerated \/ CallDeriveAddresses

SpecWallet == InitWallet /\ [][NextWallet]_vars

InitTx(requests) ==
    /\ request \in requests
    /\ hexCall = NoHexCall
    /\ walletCall = NoWalletCall
    /\ cur = <<>>
    /\ built = <<>>
    /\ signedSet = {}
    /\ last = NoTxCall

InitBuild == InitTx(Requests)

NextBuild == CallBuildTransaction

SpecBuild == InitBuild /\ [][NextBuild]_vars

InitSign == InitTx(SignRequests)

NextSign ==
    CallBuildTransaction \/ CallSignTransaction \/ CallSignRefused \/ CallCalculateTxid

SpecSign == InitSign /\ [][NextSign]_vars

\* ---------------------------------------------------------------- reading results
IsHexDigit(c) == to_digit(c) # -1

ToLower(c) == IF c \in 65..90 THEN c + 32 ELSE c
Lowercase(s) == [i \in 1..Len(s) |-> ToLower(s[i])]

\* the transaction a text decodes to
DecodeText(tx_hex) ==
    Bind(hex_to_bytes(tx_hex), LAMBDA h :
        IF h.kind # "ok" THEN Err("not hex") ELSE deserialize(h.val))

\* a key text that is 64 hex digits of a scalar in range
ValidPrivateKey(key) ==
    /\ Len(key) = 64
    /\ \A i \in 1..Len(key) : IsHexDigit(key[i])
    /\ SecretKey_from_slice(hex_to_bytes(key).val).kind = "ok"

\* the 0-based indices of the inputs that carry a witness
WitnessedInputs(tx) == {k - 1 : k \in {j \in 1..Len(tx.input) : tx.input[j].witness # <<>>}}

SignedOk == last.op = "sign_transaction" /\ last.kind = "ok"

\* ---------------------------------------------------------------- hex codec claims
\* C2: hex_to_bytes fails (returns an error, neither a byte vector nor a
\* crash) for every text whose trimmed form has odd length or holds a
\* character that is not a hex digit
C2_DecodeRejectsNonHex ==
    (hexCall.op = "hex_to_bytes"
        /\ \E t \in {trim(hexCall.text)} :
              Len(t) % 2 # 0 \/ \E i \in 1..Len(t) : ~IsHexDigit(t[i]))
    => hexCall.res.kind = "err"

\* C3: decoding what bytes_to_hex wrote succeeds and gives the bytes back;
\* the text is twice as long as the bytes and all lowercase hex digits
C3_HexRoundTrip ==
    /\ hexCall.op \in {"bytes_to_hex", "round_trip"} =>
        /\ Len(hexCall.text) = 2 * Len(hexCall.bytes)
        /\ \A i \in 1..Len(hexCall.text) :
              hexCall.text[i] \in 48..57 \/ hexCall.text[i] \in 97..102
    /\ hexCall.op = "round_trip" => hexCall.res = Ok(hexCall.bytes)

\* a round trip of bytes with a letter digit and two different nibbles
C3_Witness ==
    /\ hexCall.op = "round_trip"
    /\ hexCall.res.kind = "ok"
    /\ \E i \in 1..Len(hexCall.bytes) : hexCall.bytes[i] = 171
    /\ \E i \in 1..Len(hexCall.bytes) : hexCall.bytes[i] = 10

\* ---------------------------------------------------------------- wallet claims
\* C4: for a valid private key, the legacy, segwit and taproot address
\* strings derive_addresses_from_key returns are pairwise distinct
C4_AddressesDistinct ==
    (walletCall.op \in {"derive_generated", "derive_addresses_from_key"}
        /\ ValidPrivateKey(walletCall.key))
    => /\ walletCall.res.kind = "ok"
       /\ \A a \in {walletCall.res.val.addresses} :
             a.legacy # a.segwit /\ a.legacy # a.taproot /\ a.segwit # a.taproot

\* C10: every key generate_private_key returns is 32 bytes, nonzero and below
\* the curve order, and derive_addresses_from_key accepts it
C10_GeneratedKeyValid ==
    /\ walletCall.op = "generate_private_key" =>
          \A k \in {hex_to_bytes(walletCall.key)} :
              /\ k.kind = "ok"
              /\ Len(k.val) = 32
              /\ \E i \in 1..32 : k.val[i] # 0
              /\ BytesLess(k.val, CurveOrder)
    /\ walletCall.op = "derive_generated" => walletCall.res.kind = "ok"

\* ---------------------------------------------------------------- build claims
InputParses(rec) ==
    /\ OutPoint_from_str(rec.txid \o <<58>> \o FormatDec(rec.vout)).kind = "ok"
    /\ FromHexStrict(rec.script_pubkey).kind = "ok"

OutputParses(rec) == Address_from_str(rec.address).kind = "ok"

\* the address is one of the network the engine works on, Testnet
OnTestnet(address) ==
    \A a \in {Address_from_str(address)} : a.kind = "ok" /\ a.val.network = "test"

RequestParses ==
    /\ request.inputs_json.json_ok
    /\ request.outputs_json.json_ok
    /\ \A k \in 1..Len(request.inputs_json.recs) : InputParses(request.inputs_json.recs[k])
    /\ \A k \in 1..Len(request.outputs_json.recs) :
          OutputParses(request.outputs_json.recs[k])

\* the decoded input is the one the record describes
InputMatches(txin, rec) ==
    /\ bytes_to_hex(Reverse(txin.previous_output.txid)) = Lowercase(rec.txid)
    /\ txin.previous_output.vout = LE(rec.vout, 4)
    /\ bytes_to_hex(txin.script_sig) = Lowercase(rec.script_pubkey)
    /\ txin.sequence = <<255, 255, 255, 255>>
    /\ txin.witness = <<>>

\* C7: build_transaction fails, with an invalid-address error when nothing
\* before the address fails, whenever a destination address does not
\* decode or is an address of another network than Testnet
C7_ForeignAddressRejected ==
    (last.op = "build_transaction"
        /\ request.inputs_json.json_ok /\ request.outputs_json.json_ok
        /\ \E k \in 1..Len(request.outputs_json.recs) :
              ~OnTestnet(request.outputs_json.recs[k].address))
    => /\ last.kind = "err"
       /\ (\A k \in 1..Len(request.inputs_json.recs) :
              InputParses(request.inputs_json.recs[k])) => last.msg = "Invalid address"

C1_OutOfRangeIsAnError ==
    (last.op = "sign_transaction" /\ last.tx = "held" /\ ValidPrivateKey(last.key)
        /\ \A d \in {DecodeText(cur)} : d.kind = "ok" /\ last.idx >= Len(d.val.input))
    => (last.kind = "err" /\ last.msg = "IndexOutOfRange")

\* r and s of an ECDSA signature are nonzero, or it verifies under no key
\* and for no digest
CanVerify(sig) == \E i \in 1..Len(sig) : sig[i] # 0

\* C5: after a successful sign_transaction on input i, the witness of i is a
\* signature with the sighash-type byte, then the compressed public key of
\* the given key, and the signature is one that can verify: not zero-filled
C5_SignatureVerifies ==
    SignedOk =>
        \A d \in {DecodeText(cur)} :
            \A w \in {d.val.input[last.idx + 1].witness} :
                /\ Len(w) = 2
                /\ w[2] = PublicKeyBytes(hex_to_bytes(last.key).val)
                /\ w[1][Len(w[1])] = 1
                /\ CanVerify(SubSeq(w[1], 1, Len(w[1]) - 1))

\* a successful sign_transaction step changes the witness of its input and
\* nothing else of the transaction
SignFrame ==
    (last'.op = "sign_transaction" /\ last'.kind = "ok") =>
        \A old \in {DecodeText(cur)}, new \in {DecodeText(cur')} :
            /\ old.kind = "ok"
            /\ new.kind = "ok"
            /\ new.val.input[last'.idx + 1].witness # <<>>
            /\ new.val = [old.val EXCEPT !.input[last'.idx + 1].witness =
                                             new.val.input[last'.idx + 1].witness]

\* the inputs of the held transaction that carry a witness are the signed ones
SignedAreWitnessed ==
    Holding => \A d \in {DecodeText(cur)} : d.kind = "ok" /\ WitnessedInputs(d.val) = signedSet

\* C6: a successful sign_transaction on input i changes the witness of i
\* only, every other field of the transaction staying as passed in; so the
\* inputs with a witness are exactly the indices signed so far
C6_OnlyTargetWitnessChanges == [][SignFrame]_vars /\ []SignedAreWitnessed

\* one input of two is signed, the other is not
C6_Witness ==
    /\ SignedOk
    /\ signedSet = {1}
    /\ \A d \in {DecodeText(cur)} :
          Len(d.val.input) = 2 /\ d.val.input[1].witness = <<>>

\* C9: the txid of the held transaction, after any successful signing, is
\* the txid of the transaction as it was built
C9_TxidStableUnderSigning ==
    (last.op = "calculate_txid" /\ last.tx = "held") =>
        \A id \in {calculate_txid(built)} :
            id.kind = "ok" /\ last.kind = "ok" /\ last.val = id.val

\* the txid of a transaction signed on two inputs
C9_Witness ==
    /\ last.op = "calculate_txid"
    /\ last.tx = "held"
    /\ last.kind = "ok"
    /\ signedSet = {0, 1}

====
